---- MODULE Spec2Model ----
(***************************************************************************)
(* Model of the loglumen server (src/server/src/main.rs): the in-memory    *)
(* event store behind a parking_lot RwLock, the ingest handler             *)
(* receive_events and the query handlers get_stats, get_all_events and     *)
(* get_events_for_host, run by several actix worker threads.               *)
(*                                                                         *)
(* A Rust String is modelled as the sequence of its bytes, so that         *)
(* format!, String::cmp and percent-decoding are computed, not assumed.    *)
(***************************************************************************)
EXTENDS Integers, Sequences, FiniteSets, TLC

(***************************************************************************)
(* Bounds of the model.                                                    *)
(***************************************************************************)
\* number of actix worker threads serving requests
NumWorkers == 2
\* receive_events is not called once the store would grow beyond this
MaxStore == 3
\* longest store the aggregation specification starts from
MaxStatsLen == 3
\* most events of one category in the stores of the recent-events specification
MaxRecentLen == 11
\* longest store the host-query specification starts from
MaxHostLen == 3

(***************************************************************************)
(* Program constants.                                                      *)
(***************************************************************************)
\* the '|' of format!("{}|{}", ..)
Pipe == 124
\* .take(10)
RecentLimit == 10
\* the '%' that percent_decode_str looks for
Percent == 37

Workers == 1..NumWorkers
\* an Option: None, or Some(x)
None == <<>>
Some(x) == <<x>>

(***************************************************************************)
(* Strings (byte sequences) used as field values.                          *)
(***************************************************************************)
str_a == <<97>>
str_b == <<98>>
str_c == <<99>>
str_d == <<100>>
str_a_b == <<97, Pipe, 98>>
str_b_c == <<98, Pipe, 99>>
str_net == <<110, 101, 116>>
str_proc == <<112, 114, 111, 99>>
str_conn == <<99, 111, 110, 110>>
str_exec == <<101, 120, 101, 99>>
str_low == <<108, 111, 119>>
str_high == <<104, 105, 103, 104>>
str_T1 == <<84, 49>>
str_T2 == <<84, 50>>
str_pct61 == <<Percent, 54, 49>>
str_A == <<65>>
\* "%41", the escape of "A"
str_pct41 == <<Percent, 52, 49>>
\* "%4", no escape
str_pct4 == <<Percent, 52>>
\* "%FF", the escape of a byte that is no UTF-8
str_pctFF == <<Percent, 70, 70>>
\* "%C3%A9", the escapes of the two bytes of U+00E9
str_pctC3A9 == <<Percent, 67, 51, Percent, 65, 57>>
\* U+FFFD, the replacement character
str_replacement == <<239, 191, 189>>
str_linux == <<108, 105, 110, 117, 120>>

\* struct Event
Event(category, event_type, time, host, host_ipv4, severity) ==
    [schema_version |-> 1, category |-> category, event_type |-> event_type,
     time |-> time, host |-> host, host_ipv4 |-> host_ipv4, os |-> str_linux,
     source |-> str_a, severity |-> severity, message |-> str_b, data |-> "null"]

(***************************************************************************)
(* Pure helpers.                                                           *)
(***************************************************************************)
\* String::cmp: lexicographic order of the bytes; -1 less, 0 equal, 1 greater
RECURSIVE CmpStr(_, _)
CmpStr(a, b) ==
    IF a = <<>> THEN (IF b = <<>> THEN 0 ELSE -1)
    ELSE IF b = <<>> THEN 1
    ELSE IF Head(a) < Head(b) THEN -1
    ELSE IF Head(a) > Head(b) THEN 1
    ELSE CmpStr(Tail(a), Tail(b))

\* usize::cmp
CmpNat(a, b) == IF a < b THEN -1 ELSE IF a > b THEN 1 ELSE 0

\* Iterator::rev
RECURSIVE Reverse(_)
Reverse(s) == IF s = <<>> THEN <<>> ELSE Append(Reverse(Tail(s)), Head(s))

\* Iterator::take(n)
Take(s, n) == SubSeq(s, 1, IF Len(s) < n THEN Len(s) ELSE n)

\* *map.entry(k).or_insert(0) += 1
Incr(m, k) == IF k \in DOMAIN m THEN [m EXCEPT ![k] = @ + 1] ELSE (k :> 1) @@ m

\* the orders in which a HashMap with the key set K may be iterated
IterOrders(K) ==
    {o \in [1..Cardinality(K) -> K] : \A i, j \in 1..Cardinality(K) : o[i] = o[j] => i = j}

RECURSIVE SumSeq(_)
SumSeq(s) == IF s = <<>> THEN 0 ELSE Head(s) + SumSeq(Tail(s))

(***************************************************************************)
(* get_stats, lines 86-162.                                                *)
(***************************************************************************)
\* format!("{}|{}", event.host, event.host_ipv4)
node_key(event) == event.host \o <<Pipe>> \o event.host_ipv4

\* the loop of lines 93-97: category -> the events of the category, in store order
RECURSIVE category_map(_)
category_map(s) ==
    IF s = <<>> THEN <<>>
    ELSE LET m == category_map(SubSeq(s, 1, Len(s) - 1))
             e == s[Len(s)]
         IN IF e.category \in DOMAIN m
            THEN [m EXCEPT ![e.category] = Append(@, e)]
            ELSE (e.category :> <<e>>) @@ m

\* the NodeStats that or_insert_with creates, lines 100-107
NewNode(event) ==
    [host |-> event.host, host_ipv4 |-> event.host_ipv4, total_events |-> 0,
     last_event_time |-> None, categories |-> <<>>, severity_counts |-> <<>>]

\* faulty variant: the count is assigned, not incremented
UpdateNodeAssign(node, event) ==
    [node EXCEPT !.total_events = 1,
                 !.last_event_time = Some(event.time),
                 !.categories = Incr(@, event.category),
                 !.severity_counts = Incr(@, event.severity)]

\* faulty variant: the category of the event is entered, not counted
UpdateNodeCategoryOnce(node, event) ==
    [node EXCEPT !.total_events = @ + 1,
                 !.last_event_time = Some(event.time),
                 !.categories = (event.category :> 1) @@ @,
                 !.severity_counts = Incr(@, event.severity)]

\* lines 109-112
UpdateNode(node, event) ==
    [node EXCEPT !.total_events = @ + 1,
                 !.last_event_time = Some(event.time),
                 !.categories = Incr(@, event.category),
                 !.severity_counts = Incr(@, event.severity)]

\* the loop of lines 93, 99-112: node_key -> NodeStats
RECURSIVE node_map(_)
node_map(s) ==
    IF s = <<>> THEN <<>>
    ELSE LET m == node_map(SubSeq(s, 1, Len(s) - 1))
             e == s[Len(s)]
             k == node_key(e)
         IN IF k \in DOMAIN m
            THEN [m EXCEPT ![k] = UpdateNode(@, e)]
            ELSE (k :> UpdateNode(NewNode(e), e)) @@ m

\* event_type -> count, lines 120-123
RECURSIVE CountEventTypes(_)
CountEventTypes(events) ==
    IF events = <<>> THEN <<>>
    ELSE Incr(CountEventTypes(SubSeq(events, 1, Len(events) - 1)),
              events[Len(events)].event_type)

\* faulty variant: every severity that occurs counts once
CountSeveritiesOnce(events) ==
    [s \in {events[i].severity : i \in 1..Len(events)} |-> 1]

\* severity -> count, lines 126-129
RECURSIVE CountSeverities(_)
CountSeverities(events) ==
    IF events = <<>> THEN <<>>
    ELSE Incr(CountSeverities(SubSeq(events, 1, Len(events) - 1)),
              events[Len(events)].severity)

\* faulty variant: total_count is the length of event_types, not of events
BuildCategoryStatsByType(category, events) ==
    [category |-> category,
     total_count |-> Cardinality(DOMAIN CountEventTypes(events)),
     event_types |-> CountEventTypes(events),
     severity_counts |-> CountSeverities(events),
     recent_events |-> Take(Reverse(events), RecentLimit)]

\* faulty variant: the first ten events are taken, then reversed
BuildCategoryStatsOldest(category, events) ==
    [category |-> category,
     total_count |-> Len(events),
     event_types |-> CountEventTypes(events),
     severity_counts |-> CountSeverities(events),
     recent_events |-> Reverse(Take(events, RecentLimit))]

\* lines 118-146 for one entry of category_map
BuildCategoryStats(category, events) ==
    [category |-> category,
     total_count |-> Len(events),
     event_types |-> CountEventTypes(events),
     severity_counts |-> CountSeverities(events),
     recent_events |-> Take(Reverse(events), RecentLimit)]

\* the comparator of line 149
CategoryCmp(a, b) == CmpStr(a.category, b.category)

\* faulty variant: no tie-break by host
NodeCmpTotalsOnly(a, b) == CmpNat(b.total_events, a.total_events)

\* the comparator of line 152
NodeCmp(a, b) ==
    LET c == CmpNat(b.total_events, a.total_events)
    IN IF c # 0 THEN c ELSE CmpStr(a.host, b.host)

\* slice::sort_by is stable: x goes behind every element that is not greater
RECURSIVE InsertCategory(_, _)
InsertCategory(sorted, x) ==
    IF sorted = <<>> THEN <<x>>
    ELSE IF CategoryCmp(x, sorted[Len(sorted)]) >= 0 THEN Append(sorted, x)
    ELSE Append(InsertCategory(SubSeq(sorted, 1, Len(sorted) - 1), x), sorted[Len(sorted)])

RECURSIVE SortCategories(_)
SortCategories(s) ==
    IF s = <<>> THEN <<>>
    ELSE InsertCategory(SortCategories(SubSeq(s, 1, Len(s) - 1)), s[Len(s)])

RECURSIVE InsertNode(_, _)
InsertNode(sorted, x) ==
    IF sorted = <<>> THEN <<x>>
    ELSE IF NodeCmp(x, sorted[Len(sorted)]) >= 0 THEN Append(sorted, x)
    ELSE Append(InsertNode(SubSeq(sorted, 1, Len(sorted) - 1), x), sorted[Len(sorted)])

RECURSIVE SortNodes(_)
SortNodes(s) ==
    IF s = <<>> THEN <<>>
    ELSE InsertNode(SortNodes(SubSeq(s, 1, Len(s) - 1)), s[Len(s)])

\* lines 116-149: categories, pushed in the iteration order catOrder of
\* category_map, then sorted
BuildCategories(s, catOrder) ==
    LET m == category_map(s)
    IN SortCategories([i \in 1..Len(catOrder) |->
                          BuildCategoryStats(catOrder[i], m[catOrder[i]])])

\* lines 151-152: nodes, collected in the iteration order nodeOrder of
\* node_map, then sorted
BuildNodes(s, nodeOrder) ==
    LET m == node_map(s)
    IN SortNodes([i \in 1..Len(nodeOrder) |-> m[nodeOrder[i]]])

(***************************************************************************)
(* get_events_for_host, lines 171-189.                                     *)
(***************************************************************************)
IsHex(b) == (b >= 48 /\ b <= 57) \/ (b >= 65 /\ b <= 70) \/ (b >= 97 /\ b <= 102)
HexVal(b) == IF b <= 57 THEN b - 48 ELSE IF b <= 70 THEN b - 55 ELSE b - 87

\* percent_decode_str: "%XY" with two hex digits becomes the byte 16*X+Y,
\* every other byte stands for itself
RECURSIVE percent_decode_str(_)
percent_decode_str(s) ==
    IF s = <<>> THEN <<>>
    ELSE IF Head(s) = Percent /\ Len(s) >= 3 /\ IsHex(s[2]) /\ IsHex(s[3])
         THEN <<HexVal(s[2]) * 16 + HexVal(s[3])>> \o percent_decode_str(SubSeq(s, 4, Len(s)))
         ELSE <<Head(s)>> \o percent_decode_str(Tail(s))

\* the length of the UTF-8 sequence a first byte announces, 0 if it starts none
Utf8Width(b) ==
    IF b < 128 THEN 1
    ELSE IF b >= 194 /\ b <= 223 THEN 2
    ELSE IF b >= 224 /\ b <= 239 THEN 3
    ELSE IF b >= 240 /\ b <= 244 THEN 4
    ELSE 0

\* the second byte a first byte admits (no overlong form, no surrogate,
\* nothing above U+10FFFF) and the continuation bytes
Utf8Second(b1, b2) ==
    /\ b2 >= (IF b1 = 224 THEN 160 ELSE IF b1 = 240 THEN 144 ELSE 128)
    /\ b2 <= (IF b1 = 237 THEN 159 ELSE IF b1 = 244 THEN 143 ELSE 191)
Utf8Cont(b) == b >= 128 /\ b <= 191

\* the number of leading bytes of s that belong to the sequence s[1] starts
Utf8Prefix(s) ==
    LET w == Utf8Width(s[1])
    IN IF w <= 1 \/ Len(s) < 2 \/ ~Utf8Second(s[1], s[2]) THEN 1
       ELSE IF w = 2 \/ Len(s) < 3 \/ ~Utf8Cont(s[3]) THEN 2
       ELSE IF w = 3 \/ Len(s) < 4 \/ ~Utf8Cont(s[4]) THEN 3
       ELSE 4

\* decode_utf8_lossy on the decoded bytes: a valid sequence passes, every
\* maximal part of an ill-formed one becomes U+FFFD
RECURSIVE decode_utf8_lossy(_)
decode_utf8_lossy(s) ==
    IF s = <<>> THEN <<>>
    ELSE LET w == Utf8Width(s[1])
             n == Utf8Prefix(s)
         IN (IF w > 0 /\ n = w THEN SubSeq(s, 1, n) ELSE str_replacement)
            \o decode_utf8_lossy(SubSeq(s, n + 1, Len(s)))

\* faulty variant: the address matches as well
RECURSIVE FilterHostOrAddress(_, _)
FilterHostOrAddress(s, decoded) ==
    IF s = <<>> THEN <<>>
    ELSE IF Head(s).host = decoded \/ Head(s).host_ipv4 = decoded
         THEN <<Head(s)>> \o FilterHostOrAddress(Tail(s), decoded)
         ELSE FilterHostOrAddress(Tail(s), decoded)

\* .filter(|event| event.host == decoded)
RECURSIVE FilterHost(_, _)
FilterHost(s, decoded) ==
    IF s = <<>> THEN <<>>
    ELSE IF Head(s).host = decoded
         THEN <<Head(s)>> \o FilterHost(Tail(s), decoded)
         ELSE FilterHost(Tail(s), decoded)

(***************************************************************************)
(* Inputs.                                                                 *)
(***************************************************************************)
\* two hosts whose node keys coincide: "a" + "|" + "b|c" and "a|b" + "|" + "c"
EvA == Event(str_net, str_conn, str_T2, str_a, str_b_c, str_low)
EvB == Event(str_net, str_conn, str_T1, str_a_b, str_c, str_high)
\* the host of EvA at another address, and another host
EvC == Event(str_proc, str_exec, str_T1, str_a, str_d, str_low)
EvD == Event(str_proc, str_conn, str_T2, str_b, str_d, str_high)

\* the events the agents post
IngestEvents == {EvA, EvB}
\* the events of the stores the aggregation is run on
StatsEvents == {EvA, EvB, EvC, EvD}

\* a host that differs from "a" in case only, at the address "a", and a host
\* whose name is the text "%41"
EvE == Event(str_net, str_conn, str_T1, str_A, str_a, str_low)
EvP == Event(str_proc, str_exec, str_T2, str_pct41, str_d, str_high)
\* the events of the stores the host queries run on
HostEvents == {EvA, EvC, EvE, EvP}

SeqsUpTo(S, n) == UNION {[1..k -> S] : k \in 0..n}

\* the bodies of POST /api/events
Batches == {<<>>, <<EvA>>, <<EvA, EvA>>, <<EvB, EvA>>}
\* the {host} segments of GET /api/events/{host}
Queries == {str_a, str_pct61, str_a_b}
\* the instants chrono::Utc::now() may return
Timestamps == {str_T1, str_T2}
\* the {host} segments of the host-query specification
HostQueries ==
    {str_a, str_A, str_b, str_pct61, str_pct41, str_pct4, str_pctFF, str_pctC3A9}

(***************************************************************************)
(* State.                                                                  *)
(***************************************************************************)
VARIABLES
    store,     \* AppState.events: the Vec<Event> inside the RwLock
    writer,    \* the worker that owns the lock's writer bit, 0 if none
    readers,   \* the workers that hold the lock shared
    pc,        \* where each worker is in its handler
    op,        \* the handler each worker runs
    arg,       \* its input: the batch, or the decoded host
    idx,       \* receive_events: the position of its loop in the batch
    scan,      \* get_stats: categories and nodes, built before line 154
    view,      \* get_stats: the store content its loop iterated
    out,       \* the response sent last
    acked,     \* the batches of the receive_events calls that returned, concatenated
    cuts       \* the store lengths at which a receive_events call returned

vars == <<store, writer, readers, pc, op, arg, idx, scan, view, out, acked, cuts>>

\* the workers' part of the state after main has started the server
IdleWorkers ==
    /\ writer = 0
    /\ readers = {}
    /\ pc = [w \in Workers |-> "idle"]
    /\ op = [w \in Workers |-> "none"]
    /\ arg = [w \in Workers |-> <<>>]
    /\ idx = [w \in Workers |-> 0]
    /\ scan = [w \in Workers |-> None]
    /\ view = [w \in Workers |-> None]
    /\ out = [kind |-> "none"]

\* main, lines 310-312: an empty store, an unlocked lock, idle workers
Init ==
    /\ store = <<>>
    /\ acked = <<>>
    /\ cuts = {0}
    /\ IdleWorkers

(***************************************************************************)
(* parking_lot::RwLock.                                                    *)
(***************************************************************************)
\* faulty variant: write() does not look at the writer bit
WriterBitIgnored(w) == TRUE

\* write() takes the writer bit when no other writer owns it
WriterBitFree(w) == writer = 0
\* faulty variant: write() does not wait for the readers
ReadersIgnored(w) == TRUE

\* and then waits until the readers have left
ReadersGone(w) == readers = {}
\* faulty variant: read() is granted whatever the writers do
ReadAlwaysGranted(w) == TRUE

\* faulty variant: read() gives way to a writer that holds the lock only, not
\* to one that awaits it
ReadGrantedUnlessWriting(w) == \A v \in Workers : pc[v] # "push"

\* read() is granted while no writer owns or awaits the lock
ReadGranted(w) == writer = 0

\* the events in-flight receive_events calls will still push
RECURSIVE PendingOf(_)
PendingOf(W) ==
    IF W = {} THEN 0
    ELSE LET w == CHOOSE x \in W : TRUE
         IN (IF pc[w] \in {"write_wait", "write_drain"} THEN Len(arg[w])
             ELSE IF pc[w] = "push" THEN Len(arg[w]) - (idx[w] - 1)
             ELSE 0) + PendingOf(W \ {w})

\* a handler is entered
Call(w, name, input, first) ==
    /\ pc' = [pc EXCEPT ![w] = first]
    /\ op' = [op EXCEPT ![w] = name]
    /\ arg' = [arg EXCEPT ![w] = input]
    /\ UNCHANGED <<store, writer, readers, idx, scan, view, out, acked, cuts>>

\* a handler returns: its response is sent and its locals are gone
Return(w, response) ==
    /\ out' = response
    /\ pc' = [pc EXCEPT ![w] = "idle"]
    /\ op' = [op EXCEPT ![w] = "none"]
    /\ arg' = [arg EXCEPT ![w] = <<>>]
    /\ idx' = [idx EXCEPT ![w] = 0]
    /\ scan' = [scan EXCEPT ![w] = None]
    /\ view' = [view EXCEPT ![w] = None]

(***************************************************************************)
(* receive_events, lines 60-83.                                            *)
(***************************************************************************)
\* faulty variant: an event equal to a stored one is not stored again
PushIfNew(s, event) == IF \E i \in 1..Len(s) : s[i] = event THEN s ELSE Append(s, event)

\* faulty variant: the event is inserted at the front
PushFront(s, event) == <<event>> \o s

\* faulty variant: the store keeps the newest event only
PushReplace(s, event) == <<event>>

\* store.push(event.clone())
Push(s, event) == Append(s, event)

\* json!({"status": "success", "received": events.len()})
ReceivedResponse(batch) ==
    [kind |-> "received", status |-> "success", received |-> Len(batch)]

\* a POST /api/events with the body batch reaches worker w
receive_events_call(w, batch) ==
    /\ pc[w] = "idle"
    /\ Len(store) + PendingOf(Workers) + Len(batch) <= MaxStore
    /\ Call(w, "receive_events", batch, "write_wait")

\* line 64, data.events.write(): the writer bit
write_lock(w) ==
    /\ pc[w] = "write_wait"
    /\ WriterBitFree(w)
    /\ writer' = w
    /\ pc' = [pc EXCEPT ![w] = "write_drain"]
    /\ UNCHANGED <<store, readers, op, arg, idx, scan, view, out, acked, cuts>>

\* line 64, data.events.write(): the readers have left, the guard is returned
write_granted(w) ==
    /\ pc[w] = "write_drain"
    /\ ReadersGone(w)
    /\ pc' = [pc EXCEPT ![w] = "push"]
    /\ idx' = [idx EXCEPT ![w] = 1]
    /\ UNCHANGED <<store, writer, readers, op, arg, scan, view, out, acked, cuts>>

\* lines 68-75: one iteration of the loop
receive_events_push(w) ==
    /\ pc[w] = "push"
    /\ idx[w] <= Len(arg[w])
    /\ store' = Push(store, arg[w][idx[w]])
    /\ idx' = [idx EXCEPT ![w] = @ + 1]
    /\ UNCHANGED <<writer, readers, pc, op, arg, scan, view, out, acked, cuts>>

\* lines 77-83: the response; the guard is dropped
receive_events_return(w) ==
    /\ pc[w] = "push"
    /\ idx[w] > Len(arg[w])
    /\ Return(w, ReceivedResponse(arg[w]))
    /\ writer' = 0
    /\ acked' = acked \o arg[w]
    /\ cuts' = cuts \cup {Len(store)}
    /\ UNCHANGED <<store, readers>>

(***************************************************************************)
(* The read handlers.                                                      *)
(***************************************************************************)
\* a GET /api/stats reaches worker w
get_stats_call(w) ==
    /\ pc[w] = "idle"
    /\ Call(w, "get_stats", <<>>, "read_wait")

\* a GET /api/events reaches worker w
get_all_events_call(w) ==
    /\ pc[w] = "idle"
    /\ Call(w, "get_all_events", <<>>, "read_wait")

\* a GET /api/events/{host} reaches worker w with the segment host
get_events_for_host_call(w, host) ==
    /\ pc[w] = "idle"
    /\ Call(w, "get_events_for_host", host, "read_wait")

\* lines 87, 166, 179: data.events.read()
read_lock(w) ==
    /\ pc[w] = "read_wait"
    /\ ReadGranted(w)
    /\ readers' = readers \cup {w}
    /\ pc' = [pc EXCEPT ![w] = "read_held"]
    /\ UNCHANGED <<store, writer, op, arg, idx, scan, view, out, acked, cuts>>

\* lines 90-152: the maps, the category statistics, the two sorts
get_stats_scan(w) ==
    /\ pc[w] = "read_held"
    /\ op[w] = "get_stats"
    /\ \E catOrder \in IterOrders(DOMAIN category_map(store)),
          nodeOrder \in IterOrders(DOMAIN node_map(store)) :
          scan' = [scan EXCEPT ![w] = Some([categories |-> BuildCategories(store, catOrder),
                                            nodes |-> BuildNodes(store, nodeOrder)])]
    /\ view' = [view EXCEPT ![w] = Some(store)]
    /\ pc' = [pc EXCEPT ![w] = "scanned"]
    /\ UNCHANGED <<store, writer, readers, op, arg, idx, out, acked, cuts>>

\* faulty variant: no timestamp on the statistics of an empty store
StatsResponseUnstamped(s, scanned, now) ==
    [kind |-> "stats",
     total_events |-> Len(s),
     categories |-> scanned.categories,
     last_updated |-> IF Len(s) = 0 THEN None ELSE now,
     nodes |-> scanned.nodes]

\* lines 154-159: DashboardStats
StatsResponse(s, scanned, now) ==
    [kind |-> "stats",
     total_events |-> Len(s),
     categories |-> scanned.categories,
     last_updated |-> now,
     nodes |-> scanned.nodes]

\* lines 154-161: the response; the guard is dropped
get_stats_return(w) ==
    /\ pc[w] = "scanned"
    /\ \E now \in Timestamps : Return(w, StatsResponse(store, scan[w][1], now))
    /\ readers' = readers \ {w}
    /\ UNCHANGED <<store, writer, acked, cuts>>

\* line 167: the whole store
AllEventsResponse(s) == [kind |-> "events", body |-> s]

\* lines 166-168: the response; the guard is dropped
get_all_events_return(w) ==
    /\ pc[w] = "read_held"
    /\ op[w] = "get_all_events"
    /\ Return(w, AllEventsResponse(store))
    /\ readers' = readers \ {w}
    /\ UNCHANGED <<store, writer, acked, cuts>>

\* lines 175-188: decode the segment, filter, reverse; query and host record
\* the segment and what it decoded to
HostEventsResponse(s, host) ==
    LET decoded == decode_utf8_lossy(percent_decode_str(host))
    IN [kind |-> "host_events", query |-> host, host |-> decoded,
        body |-> Reverse(FilterHost(s, decoded))]

\* lines 180-189: the response; the guard is dropped
get_events_for_host_return(w) ==
    /\ pc[w] = "read_held"
    /\ op[w] = "get_events_for_host"
    /\ Return(w, HostEventsResponse(store, arg[w]))
    /\ readers' = readers \ {w}
    /\ UNCHANGED <<store, writer, acked, cuts>>

(***************************************************************************)
(* Specifications.                                                         *)
(***************************************************************************)
\* the server: every worker runs handlers, one request at a time
Next ==
    \E w \in Workers :
        \/ \E batch \in Batches : receive_events_call(w, batch)
        \/ write_lock(w)
        \/ write_granted(w)
        \/ receive_events_push(w)
        \/ receive_events_return(w)
        \/ get_stats_call(w)
        \/ get_all_events_call(w)
        \/ \E host \in Queries : get_events_for_host_call(w, host)
        \/ read_lock(w)
        \/ get_stats_scan(w)
        \/ get_stats_return(w)
        \/ get_all_events_return(w)
        \/ get_events_for_host_return(w)

Spec == Init /\ [][Next]_vars

\* sequential use: one client, whose next request follows the response to
\* the last, so that a single worker is ever busy
NextSeq ==
    \/ \E batch \in Batches : receive_events_call(1, batch)
    \/ write_lock(1)
    \/ write_granted(1)
    \/ receive_events_push(1)
    \/ receive_events_return(1)
    \/ get_all_events_call(1)
    \/ read_lock(1)
    \/ get_all_events_return(1)

SpecSeq == Init /\ [][NextSeq]_vars

\* the aggregation: get_stats on every store of up to MaxStatsLen events
InitStats ==
    /\ store \in SeqsUpTo(StatsEvents, MaxStatsLen)
    /\ acked = store
    /\ cuts = {0, Len(store)}
    /\ IdleWorkers

NextStats ==
    \E w \in Workers :
        \/ get_stats_call(w)
        \/ read_lock(w)
        \/ get_stats_scan(w)
        \/ get_stats_return(w)

SpecStats == InitStats /\ [][NextStats]_vars

\* s with event e put in behind its first p events
InsertAt(s, p, e) == SubSeq(s, 1, p) \o <<e>> \o SubSeq(s, p + 1, Len(s))

\* the recent events: get_stats on stores of up to MaxRecentLen events of the
\* category net, alone or with an event of the category proc in their middle
InitRecent ==
    /\ \E base \in SeqsUpTo({EvA, EvB}, MaxRecentLen) :
          store \in {base, InsertAt(base, Len(base) \div 2, EvC)}
    /\ acked = store
    /\ cuts = {0, Len(store)}
    /\ IdleWorkers

NextRecent ==
    \/ get_stats_call(1)
    \/ read_lock(1)
    \/ get_stats_scan(1)
    \/ get_stats_return(1)

SpecRecent == InitRecent /\ [][NextRecent]_vars

\* the host queries: get_events_for_host on stores of up to MaxHostLen events
InitHost ==
    /\ store \in SeqsUpTo(HostEvents, MaxHostLen)
    /\ acked = store
    /\ cuts = {0, Len(store)}
    /\ IdleWorkers

NextHost ==
    \/ \E host \in HostQueries : get_events_for_host_call(1, host)
    \/ read_lock(1)
    \/ get_events_for_host_return(1)

SpecHost == InitHost /\ [][NextHost]_vars

\* the batches and the {host} segments of the progress specification
LiveBatches == {<<>>, <<EvA>>}
LiveQueries == {str_pct61}

\* the steps of worker w that wait for nothing: the thread runs them once
\* the scheduler lets it
Run(w) ==
    \/ write_granted(w)
    \/ receive_events_push(w)
    \/ receive_events_return(w)
    \/ get_stats_return(w)
    \/ get_all_events_return(w)
    \/ get_events_for_host_return(w)

\* the steps get_stats_scan(w) takes, told by what they do to pc: the scan is
\* enabled whenever worker w holds the read lock in get_stats (a map has an
\* iteration order), and no other step takes w from "read_held" to "scanned"
Scanning(w) ==
    /\ pc[w] = "read_held"
    /\ op[w] = "get_stats"
    /\ pc' = [pc EXCEPT ![w] = "scanned"]

NextLive ==
    \E w \in Workers :
        \/ \E batch \in LiveBatches : receive_events_call(w, batch)
        \/ get_stats_call(w)
        \/ get_all_events_call(w)
        \/ \E host \in LiveQueries : get_events_for_host_call(w, host)
        \/ write_lock(w)
        \/ read_lock(w)
        \/ get_stats_scan(w)
        \/ Run(w)

\* every worker thread is scheduled (weak fairness of its steps; write_granted
\* stays enabled once the readers have left, since the writer bit keeps new
\* ones out), and parking_lot's RwLock is task-fair: a thread queued in
\* read() or write() is not passed over for ever while the lock keeps
\* becoming available (strong fairness of the two acquisitions)
\* (every step of a call changes pc or idx)
\* The workers are interchangeable, so the acquisitions of worker 1 stand
\* for those of any worker.
Fairness ==
    /\ \A w \in Workers : WF_<<pc, idx>>(Run(w)) /\ WF_pc(Scanning(w))
    /\ SF_pc(read_lock(1))
    /\ SF_pc(write_lock(1))

SpecLive == Init /\ [][NextLive]_vars /\ Fairness

(***************************************************************************)
(* Properties.                                                             *)
(***************************************************************************)
IsPrefix(a, b) == Len(a) <= Len(b) /\ SubSeq(b, 1, Len(a)) = a

\* how often event e occurs in s
Count(e, s) == Cardinality({i \in 1..Len(s) : s[i] = e})

WriteHeld(w) == pc[w] = "push"
ReadHeld(w) == pc[w] \in {"read_held", "scanned"}

\* C1: with sequential requests, every response of get_all_events is the
\* concatenation batch_1 .. batch_N of the batches of the receive_events
\* calls made before it, in call order, each batch in its own order,
\* duplicates included; its length is the sum of the batch lengths, which
\* is the store length recorded when the last call returned.
C1_SequentialAppend ==
    out.kind = "events" =>
        /\ out.body = acked
        /\ Len(out.body) \in cuts
        /\ \A n \in cuts : n <= Len(out.body)

C1_Witness ==
    /\ out.kind = "events"
    /\ out.body = <<EvA, EvA, EvA>>
    /\ cuts = {0, 1, 3}

\* C2: whenever a read handler holds the store, no batch is partly
\* appended: the store is exactly the acknowledged batches and its length
\* is one at which a receive_events call returned; the content get_stats
\* iterated is that store, and the lengths the responses report are such
\* lengths too.
C2_NoTornBatch ==
    /\ \A w \in Workers :
          ReadHeld(w) =>
              /\ store = acked
              /\ Len(store) \in cuts
              /\ pc[w] = "scanned" => view[w] = Some(store)
    /\ out.kind = "events" => Len(out.body) \in cuts
    /\ out.kind = "stats" => out.total_events \in cuts

\* a read holds the store that holds one whole batch, while a writer with a
\* batch of two waits for it to leave
C2_Witness ==
    \E r, w \in Workers :
        /\ pc[r] = "read_held"
        /\ pc[w] = "write_drain"
        /\ Len(arg[w]) = 2
        /\ Len(store) = 1

\* C3: no two receive_events calls hold the store together, and none holds
\* it together with a read; while a call holds it, the store is the
\* acknowledged batches followed by the part of the call's batch pushed so
\* far, so the events of a batch are contiguous and in batch order.
C3_WritersExclusive ==
    \A w \in Workers :
        WriteHeld(w) =>
            /\ \A v \in Workers \ {w} : ~WriteHeld(v) /\ ~ReadHeld(v)
            /\ readers = {}
            /\ store = acked \o SubSeq(arg[w], 1, idx[w] - 1)

\* two appends run concurrently: one is inside its batch, the other waits
C3_Witness ==
    \E w, v \in Workers :
        /\ pc[w] = "push" /\ idx[w] = 2 /\ Len(arg[w]) = 2
        /\ pc[v] = "write_wait" /\ Len(arg[v]) > 0

\* several reads hold the store together (a reachable state)
C3_ReadersTogether == Cardinality(readers) >= 2

\* C4: the store holds every acknowledged batch at every moment after the
\* acknowledgement, so a read that starts later finds it: the response of
\* get_all_events is all acknowledged batches, get_stats counts them all and
\* get_events_for_host filters them all; and once no append is running the
\* store holds every event of every batch exactly once.
C4_ReadAfterWrite ==
    /\ IsPrefix(acked, store)
    /\ out.kind = "events" => out.body = acked
    /\ out.kind = "stats" => out.total_events = Len(acked)
    /\ out.kind = "host_events" => out.body = Reverse(FilterHost(acked, out.host))
    /\ (\A w \in Workers : ~WriteHeld(w)) =>
          /\ Len(store) = Len(acked)
          /\ \A e \in IngestEvents : Count(e, store) = Count(e, acked)

\* after two appends have completed, a query by host answers with the events
\* of both
C4_Witness ==
    /\ out.kind = "host_events"
    /\ out.body = <<EvA, EvA>>
    /\ cuts = {0, 1, 3}
    /\ \A w \in Workers : pc[w] = "idle"

ReadOps == {"get_stats", "get_all_events", "get_events_for_host"}

\* worker w takes a step of a read handler: it enters one, or moves on in one
ReadStep(w) ==
    \/ op[w] = "none" /\ op'[w] \in ReadOps
    \/ op[w] \in ReadOps /\ pc'[w] # pc[w]

\* C5: every step leaves the store as it was or extends it at the end, so
\* the store of an earlier state is a prefix of the store of every later
\* state; the steps of the read handlers leave it unchanged.
C5_AppendOnly ==
    [][/\ IsPrefix(store, store')
       /\ (\E w \in Workers : ReadStep(w)) => store' = store]_vars

\* the store has grown and the three read handlers have answered on it
C5_Witness ==
    /\ Len(store) = 3
    /\ out.kind = "stats"
    /\ out.total_events = 3

\* the (host, host_ipv4) pairs of the events of s
NodePairs(s) == {<<s[i].host, s[i].host_ipv4>> : i \in 1..Len(s)}

\* the number of events of s with the given host and host_ipv4
CountPair(s, host, host_ipv4) ==
    Cardinality({i \in 1..Len(s) : s[i].host = host /\ s[i].host_ipv4 = host_ipv4})

\* C6: in every response of get_stats, the total_count of the categories
\* add up to total_events.
C6_CategoryTotal ==
    out.kind = "stats" =>
        SumSeq([i \in 1..Len(out.categories) |-> out.categories[i].total_count])
            = out.total_events

\* statistics of a store of three events in two categories
C6_Witness ==
    /\ out.kind = "stats"
    /\ out.total_events = 3
    /\ Len(out.categories) = 2

\* C7: in every response of get_stats, the total_events of the nodes add
\* up to total_events.
C7_NodeTotal ==
    out.kind = "stats" =>
        SumSeq([i \in 1..Len(out.nodes) |-> out.nodes[i].total_events])
            = out.total_events

\* statistics of a store of three events of two nodes
C7_Witness ==
    /\ out.kind = "stats"
    /\ out.total_events = 3
    /\ Len(out.nodes) = 2
    /\ out.nodes[1].total_events = 2

\* C8: get_stats groups by the pair (host, host_ipv4): the response has one
\* node for every pair that occurs in the store, and each node counts the
\* events that have its host and its host_ipv4.
C8_GroupedByPair ==
    out.kind = "stats" =>
        /\ Len(out.nodes) = Cardinality(NodePairs(store))
        /\ \A i \in 1..Len(out.nodes) :
              out.nodes[i].total_events
                  = CountPair(store, out.nodes[i].host, out.nodes[i].host_ipv4)

CategoriesAscending(categories) ==
    \A i \in 1..(Len(categories) - 1) :
        CmpStr(categories[i].category, categories[i + 1].category) < 0

NodesNonIncreasing(nodes) ==
    \A i \in 1..(Len(nodes) - 1) : nodes[i].total_events >= nodes[i + 1].total_events

\* C9 as stated: categories strictly ascending by name; nodes non-increasing
\* by total_events, adjacent nodes of equal total_events strictly ascending
\* by host.
C9_SortOrderStrict ==
    out.kind = "stats" =>
        /\ CategoriesAscending(out.categories)
        /\ NodesNonIncreasing(out.nodes)
        /\ \A i \in 1..(Len(out.nodes) - 1) :
              out.nodes[i].total_events = out.nodes[i + 1].total_events
                  => CmpStr(out.nodes[i].host, out.nodes[i + 1].host) < 0

\* C9 amended: categories strictly ascending by name; nodes non-increasing
\* by total_events, adjacent nodes of equal total_events ascending by host,
\* where the hosts of two nodes that differ in host_ipv4 may be equal.
C9_SortOrder ==
    out.kind = "stats" =>
        /\ CategoriesAscending(out.categories)
        /\ NodesNonIncreasing(out.nodes)
        /\ \A i \in 1..(Len(out.nodes) - 1) :
              out.nodes[i].total_events = out.nodes[i + 1].total_events
                  => CmpStr(out.nodes[i].host, out.nodes[i + 1].host) <= 0

\* two categories; three nodes, of which two tie on total_events and host and
\* another ties on total_events with a greater host
C9_Witness ==
    /\ out.kind = "stats"
    /\ Len(out.categories) = 2
    /\ Len(out.nodes) = 3
    /\ out.nodes[1].total_events = out.nodes[3].total_events
    /\ out.nodes[1].host = out.nodes[2].host
    /\ out.nodes[2].host # out.nodes[3].host

\* C10: two computations of get_stats on the same store give the same
\* categories and the same nodes, in the same positions: what a get_stats
\* has built equals what the last response carried (the store of this
\* specification never changes).
C10_Deterministic ==
    \A w \in Workers :
        (pc[w] = "scanned" /\ out.kind = "stats") =>
            /\ scan[w][1].categories = out.categories
            /\ scan[w][1].nodes = out.nodes

\* the events of s with the given category, in the order of s
CategoryEvents(s, category) ==
    LET InCategory(e) == e.category = category
    IN SelectSeq(s, InCategory)

Min(a, b) == IF a < b THEN a ELSE b

\* C11: every category of a get_stats response lists min(10, total_count)
\* recent events; the first is the event of the category appended last, and
\* the k-th is the k-th from the end among the events of the category in
\* the store.
C11_RecentEvents ==
    out.kind = "stats" =>
        \A i \in 1..Len(out.categories) :
            LET c == out.categories[i]
                ce == CategoryEvents(store, c.category)
            IN /\ Len(c.recent_events) = Min(RecentLimit, c.total_count)
               /\ c.total_count = Len(ce)
               /\ c.recent_events[1] = ce[Len(ce)]
               /\ \A k \in 1..Len(c.recent_events) :
                     c.recent_events[k] = ce[Len(ce) - k + 1]

\* a category of eleven events, the oldest of which is not the newest but one,
\* lists ten, beside another category
C11_Witness ==
    /\ out.kind = "stats"
    /\ Len(out.categories) = 2
    /\ out.categories[1].total_count = RecentLimit + 1
    /\ Len(out.categories[1].recent_events) = RecentLimit
    /\ store[1] # out.categories[1].recent_events[RecentLimit]

\* the positions of the events of s whose host field is h
HostPositions(s, h) == {i \in 1..Len(s) : s[i].host = h}

\* C12: the per-host query returns the events whose host field equals the
\* decoded host string, whatever their host_ipv4 and with case significant,
\* each as stored, latest first: the k-th returned event is the stored event
\* at the k-th largest matching position, and no match gives the empty
\* sequence.
C12_HostFilter ==
    out.kind = "host_events" =>
        LET ps == HostPositions(store, out.host)
        IN /\ Len(out.body) = Cardinality(ps)
           /\ \A i \in ps :
                 out.body[Cardinality({j \in ps : j >= i})] = store[i]

\* two events of host "a" come back latest first, without the event of the
\* host "A" at the address "a" that lies between them
C12_Witness ==
    /\ out.kind = "host_events"
    /\ out.host = str_a
    /\ store = <<EvA, EvE, EvC>>
    /\ out.body = <<EvC, EvA>>

\* the positions of the events of s with the given host and host_ipv4
PairPositions(s, host, host_ipv4) ==
    {i \in 1..Len(s) : s[i].host = host /\ s[i].host_ipv4 = host_ipv4}

\* the largest element of a non-empty set of numbers
Last(ps) == CHOOSE i \in ps : \A j \in ps : j <= i

\* C13: in every response of get_stats, the last_event_time of a node is the
\* time field of the last-appended event that has the host and the host_ipv4
\* of the node, however the time strings compare.
C13_LastEventTime ==
    out.kind = "stats" =>
        \A i \in 1..Len(out.nodes) :
            LET n == out.nodes[i]
                ps == PairPositions(store, n.host, n.host_ipv4)
            IN /\ ps # {}
               /\ n.last_event_time = Some(store[Last(ps)].time)

\* worker w has a step to take
CanStep(w) ==
    \/ pc[w] \in {"push", "read_held", "scanned"}
    \/ pc[w] = "write_wait" /\ WriterBitFree(w)
    \/ pc[w] = "write_drain" /\ ReadersGone(w)
    \/ pc[w] = "read_wait" /\ ReadGranted(w)

\* while a call is in progress, some worker in a call has a step to take
NoDeadlock == (\E w \in Workers : pc[w] # "idle") => \E w \in Workers : CanStep(w)

C15_NoDecoding ==
    out.kind = "host_events" =>
        /\ \A k \in 1..Len(out.body) : out.body[k].host = out.query
        /\ Len(out.body) = Cardinality(HostPositions(store, out.query))

\* C16: queries on a store without events are answered, not refused:
\* get_stats gives total_events 0, no categories, no nodes and a timestamp;
\* get_all_events gives the empty sequence.
C16_EmptyStore ==
    /\ (out.kind = "stats" /\ out.total_events = 0) =>
            /\ out.categories = <<>>
            /\ out.nodes = <<>>
            /\ out.last_updated \in Timestamps
    /\ \A w \in Workers :
          (store = <<>> /\ pc[w] = "scanned") =>
              scan[w] = Some([categories |-> <<>>, nodes |-> <<>>])
    /\ (out.kind = "events" /\ store = <<>>) => out.body = <<>>

\* get_all_events has answered on the empty store, and get_stats has scanned it
C16_Witness ==
    /\ store = <<>>
    /\ out.kind = "events"
    /\ \E w \in Workers : pc[w] = "scanned"

\* the total_count of the categories, and the total_events of the nodes, summed
CategoryTotal(categories) ==
    SumSeq([i \in 1..Len(categories) |-> categories[i].total_count])
NodeTotal(nodes) == SumSeq([i \in 1..Len(nodes) |-> nodes[i].total_events])

\* C17: get_stats works on one snapshot while receive_events calls run
\* beside it: from the scan to the response the store is the one that was
\* scanned, it holds whole batches only (the batches of the calls that have
\* returned, its length one at which a call returned), and the categories
\* and the nodes both add up to its length; in every response the
\* categories and the nodes add up to total_events, which is a length at
\* which a receive_events call had returned.
C17_ConsistentSnapshot ==
    /\ \A w \in Workers :
          pc[w] = "scanned" =>
              /\ view[w] = Some(store)
              /\ store = acked
              /\ Len(store) \in cuts
              /\ CategoryTotal(scan[w][1].categories) = Len(store)
              /\ NodeTotal(scan[w][1].nodes) = Len(store)
    /\ out.kind = "stats" =>
          /\ CategoryTotal(out.categories) = out.total_events
          /\ NodeTotal(out.nodes) = out.total_events
          /\ out.total_events \in cuts

\* get_stats has scanned a store that is not empty and has not answered yet,
\* while a receive_events call with two events awaits the lock
C17_Witness ==
    \E w, v \in Workers :
        /\ pc[w] = "scanned"
        /\ Len(store) >= 1
        /\ pc[v] = "write_drain"
        /\ Len(arg[v]) = 2

\* the sum of the counts of a map
RECURSIVE SumMap(_)
SumMap(m) ==
    IF DOMAIN m = {} THEN 0
    ELSE LET k == CHOOSE x \in DOMAIN m : TRUE
         IN m[k] + SumMap([x \in DOMAIN m \ {k} |-> m[x]])

\* the positions of the events of s with the given category
CategoryPositions(s, category) == {i \in 1..Len(s) : s[i].category = category}

\* C18: in every response of get_stats, every category has total_count >= 1,
\* its event_types and its severity_counts each add up to total_count, and
\* they hold, for every event_type and every severity that occurs among the
\* stored events of the category and for no other, the number of these
\* events, which is at least 1.
C18_CategoryRollups ==
    out.kind = "stats" =>
        \A i \in 1..Len(out.categories) :
            LET c == out.categories[i]
                ps == CategoryPositions(store, c.category)
            IN /\ c.total_count >= 1
               /\ SumMap(c.event_types) = c.total_count
               /\ SumMap(c.severity_counts) = c.total_count
               /\ DOMAIN c.event_types = {store[j].event_type : j \in ps}
               /\ DOMAIN c.severity_counts = {store[j].severity : j \in ps}
               /\ \A t \in DOMAIN c.event_types :
                     /\ c.event_types[t] >= 1
                     /\ c.event_types[t]
                           = Cardinality({j \in ps : store[j].event_type = t})
               /\ \A v \in DOMAIN c.severity_counts :
                     /\ c.severity_counts[v] >= 1
                     /\ c.severity_counts[v]
                           = Cardinality({j \in ps : store[j].severity = v})

\* a category of three events with two event types, one of them counted twice
C18_Witness ==
    /\ out.kind = "stats"
    /\ \E i \in 1..Len(out.categories) :
          /\ out.categories[i].total_count = 3
          /\ Cardinality(DOMAIN out.categories[i].event_types) = 2
          /\ Cardinality(DOMAIN out.categories[i].severity_counts) = 2

\* the count of a key of a map, 0 for a key the map lacks
CountOf(m, k) == IF k \in DOMAIN m THEN m[k] ELSE 0

\* C19: in every response of get_stats, the categories and the
\* severity_counts of every node each add up to its total_events, which is
\* at least 1, its last_event_time is not None, every category of a node has
\* a CategoryStats entry, and the counts of every category over all nodes
\* add up to the total_count of its CategoryStats entry.
C19_NodeRollups ==
    out.kind = "stats" =>
        /\ \A i \in 1..Len(out.nodes) :
              LET n == out.nodes[i]
              IN /\ n.total_events >= 1
                 /\ SumMap(n.categories) = n.total_events
                 /\ SumMap(n.severity_counts) = n.total_events
                 /\ n.last_event_time # None
                 /\ \A k \in DOMAIN n.categories :
                       \E j \in 1..Len(out.categories) : out.categories[j].category = k
        /\ \A j \in 1..Len(out.categories) :
              SumSeq([i \in 1..Len(out.nodes)
                         |-> CountOf(out.nodes[i].categories, out.categories[j].category)])
                  = out.categories[j].total_count

\* two categories, one of them with events on two nodes
C19_Witness ==
    /\ out.kind = "stats"
    /\ Len(out.categories) = 2
    /\ \E i, j \in 1..Len(out.nodes) :
          /\ i # j
          /\ DOMAIN out.nodes[i].categories = DOMAIN out.nodes[j].categories

====
